---- MODULE Spec2Model ----
(***************************************************************************)
(* A model of the course-material RAG backend: the sentence chunker and    *)
(* the document parser of document_processor.py, and the search pipeline   *)
(* of vector_store.py.  Text is modelled as strings, character by          *)
(* character; Python's None is the empty tuple and a present optional      *)
(* value v is the one-element tuple <<v>>.                                 *)
(***************************************************************************)
EXTENDS Integers, Sequences, FiniteSets, TLC

VARIABLES
    \* ---- DocumentProcessor.chunk_text (one call) ----
    c_pc,           \* position in chunk_text: "idle", "start", "loop", "done"
    c_text,         \* the text argument
    chunk_size,     \* self.chunk_size
    chunk_overlap,  \* self.chunk_overlap
    sentences,      \* the cleaned sentence list
    c_i,            \* the start index i of the while loop (0-based, as in the code)
    chunks,         \* the chunk strings emitted so far
    c_hist,         \* history, one record per loop iteration: the start index,
                    \* the number of sentences packed, the overlap window
    \* ---- DocumentProcessor.process_course_document (one call) ----
    d_file,         \* the file read: its name and its content
    doc,            \* the locals of process_course_document and its position
    \* ---- VectorStore ----
    catalog,        \* the course_catalog collection
    content,        \* the course_content collection
    search,         \* the locals of VectorStore.search and its position
    index_calls,    \* the queries the search in progress has made on the index
    last_added,     \* history: the file and the outcome of the last
                    \* add_course_document call
    \* ---- RAGSystem.add_course_folder (one call at a time) ----
    folder,         \* the locals of add_course_folder and its position
    \* ---- SessionManager ----
    max_history,    \* self.max_history
    sessions,       \* self.sessions: session id -> list of Message
    session_counter,\* self.session_counter
    s_added,        \* history: session id -> every message added to it since
                    \* it was last created or cleared
    \* ---- RAGSystem.query and the search tool ----
    last_sources,   \* CourseSearchTool.last_sources
    rq              \* the locals of RAGSystem.query and its position

chunkVars == <<c_pc, c_text, sentences, c_i, chunks, c_hist>>
configVars == <<chunk_size, chunk_overlap>>
docVars == <<d_file, doc>>
storeVars == <<catalog, content, search, index_calls, last_added>>
folderVars == <<folder>>
sessionVars == <<max_history, sessions, session_counter, s_added>>
queryVars == <<last_sources, rq>>

vars == <<chunkVars, configVars, docVars, storeVars, folderVars, sessionVars, queryVars>>

(***************************************************************************)
(* Bounds of the model.                                                    *)
(***************************************************************************)
MaxTokens == 3
MaxChunkSize == 12
MaxOverlap == 6
MaxBodyLines == 4
MaxDistance == 1
MaxResults == 2
MaxListing == 3
MaxHistory == 1
MaxSessions == 2
MaxMessages == 4
MaxToolCalls == 2

(***************************************************************************)
(* Characters and Python's str / re primitives.                            *)
(***************************************************************************)
None == <<>>
Some(v) == <<v>>

Max(a, b) == IF a >= b THEN a ELSE b
Min(a, b) == IF a <= b THEN a ELSE b

Ch(s, p) == SubSeq(s, p, p)

UpperChars == {"A","B","C","D","E","F","G","H","I","J","K","L","M",
               "N","O","P","Q","R","S","T","U","V","W","X","Y","Z"}
LowerChars == {"a","b","c","d","e","f","g","h","i","j","k","l","m",
               "n","o","p","q","r","s","t","u","v","w","x","y","z"}
DigitChars == {"0","1","2","3","4","5","6","7","8","9"}

IsSpace(c) == c \in {" ", "\n", "\t", "\r"}
IsUpper(c) == c \in UpperChars
IsLower(c) == c \in LowerChars
IsDigit(c) == c \in DigitChars
IsWord(c) == c \in UpperChars \cup LowerChars \cup DigitChars \cup {"_"}

MinOf(S) == CHOOSE p \in S : \A q \in S : p <= q
MaxOf(S) == CHOOSE p \in S : \A q \in S : p >= q

\* The positions from `from` on at which s holds something other than
\* whitespace.
NonSpaceAt(s, from) == {p \in from..Len(s) : ~IsSpace(Ch(s, p))}

\* The first position at or after p that holds no whitespace.
RunEnd(t, p) == IF NonSpaceAt(t, p) = {} THEN Len(t) + 1 ELSE MinOf(NonSpaceAt(t, p))

\* str.lstrip() and str.rstrip()
LStrip(s) == SubSeq(s, RunEnd(s, 1), Len(s))
RStrip(s) == IF NonSpaceAt(s, 1) = {} THEN "" ELSE SubSeq(s, 1, MaxOf(NonSpaceAt(s, 1)))

\* str.strip()
Strip(s) == RStrip(LStrip(s))

\* re.sub(r'\s+', ' ', s)
RECURSIVE CollapseSpaces(_)
CollapseSpaces(s) ==
    LET spaces == {p \in 1..Len(s) : IsSpace(Ch(s, p))}
        first == MinOf(spaces)
    IN  IF spaces = {} THEN s
        ELSE SubSeq(s, 1, first - 1) \o " "
                 \o CollapseSpaces(SubSeq(s, RunEnd(s, first), Len(s)))

\* ' '.join(seq)
RECURSIVE Join(_)
Join(seq) ==
    IF Len(seq) = 0 THEN ""
    ELSE IF Len(seq) = 1 THEN seq[1]
    ELSE seq[1] \o " " \o Join(Tail(seq))

(***************************************************************************)
(* chunk_text: the sentence splitter.                                      *)
(***************************************************************************)
\* sentence_endings matches at position p:
\*   (?<!\w\.\w.)(?<![A-Z][a-z]\.)(?<=\.|\!|\?)\s+(?=[A-Z])
SentenceEndingAt(t, p) ==
    /\ p >= 2
    /\ p <= Len(t)
    /\ IsSpace(Ch(t, p))
    /\ Ch(t, p - 1) \in {".", "!", "?"}
    /\ ~(/\ p >= 4
         /\ IsUpper(Ch(t, p - 3))
         /\ IsLower(Ch(t, p - 2))
         /\ Ch(t, p - 1) = ".")
    /\ ~(/\ p >= 5
         /\ IsWord(Ch(t, p - 4))
         /\ Ch(t, p - 3) = "."
         /\ IsWord(Ch(t, p - 2))
         /\ Ch(t, p - 1) # "\n")
    /\ RunEnd(t, p) <= Len(t)
    /\ IsUpper(Ch(t, RunEnd(t, p)))

\* sentence_endings.split(text) from position from on: the piece up to the
\* next match, then the pieces after the whitespace the match consumed.
RECURSIVE SplitFrom(_, _)
SplitFrom(t, from) ==
    LET matches == {p \in from..Len(t) : SentenceEndingAt(t, p)}
        first == MinOf(matches)
    IN  IF matches = {} THEN <<SubSeq(t, from, Len(t))>>
        ELSE <<SubSeq(t, from, first - 1)>> \o SplitFrom(t, RunEnd(t, first))

\* [s.strip() for s in sentences if s.strip()]
RECURSIVE CleanSentences(_)
CleanSentences(seq) ==
    IF Len(seq) = 0 THEN <<>>
    ELSE IF Strip(seq[1]) = "" THEN CleanSentences(Tail(seq))
    ELSE <<Strip(seq[1])>> \o CleanSentences(Tail(seq))

\* Lines 29-38: normalise the whitespace, split into sentences, clean.
SplitSentences(text) ==
    LET t == CollapseSpaces(Strip(text))
    IN  CleanSentences(SplitFrom(t, 1))

(***************************************************************************)
(* chunk_text: packing one chunk and advancing the start index.            *)
(***************************************************************************)
\* The break test of the packing loop (with a dropped joining space).
ExceedsBudgetNoSpace(current_size, total_addition, size, count) ==
    current_size + total_addition - 1 > size /\ count > 0

\* Line 56: if current_size + total_addition > self.chunk_size and current_chunk
ExceedsBudget(current_size, total_addition, size, count) ==
    current_size + total_addition > size /\ count > 0

\* Lines 48-60: the for loop over j (1-based here); the result is
\* len(current_chunk).
RECURSIVE PackLoop(_, _, _, _, _)
PackLoop(sents, j, count, current_size, size) ==
    IF j > Len(sents) THEN count
    ELSE LET space_size == IF count > 0 THEN 1 ELSE 0
             total_addition == Len(sents[j]) + space_size
         IN  IF ExceedsBudget(current_size, total_addition, size, count)
             THEN count
             ELSE PackLoop(sents, j + 1, count + 1, current_size + total_addition, size)

\* Lines 69-79: the backward loop over k (1-based here); the result is
\* overlap_sentences.
RECURSIVE OverlapLoop(_, _, _, _, _)
OverlapLoop(current_chunk, k, overlap_size, overlap_sentences, overlap) ==
    IF k < 1 THEN overlap_sentences
    ELSE LET sentence_len ==
                 Len(current_chunk[k]) + (IF k < Len(current_chunk) THEN 1 ELSE 0)
         IN  IF overlap_size + sentence_len <= overlap
             THEN OverlapLoop(current_chunk, k - 1, overlap_size + sentence_len,
                              overlap_sentences + 1, overlap)
             ELSE overlap_sentences

\* The overlap window of a chunk: 0 when no overlap is configured.
OverlapWindow(current_chunk, overlap) ==
    IF overlap > 0
    THEN OverlapLoop(current_chunk, Len(current_chunk), 0, 0, overlap)
    ELSE 0

\* The new start index without the forward-progress clamp.
AdvanceNoClamp(i, n, window, overlap) ==
    IF n > 0
    THEN IF overlap > 0 THEN i + n - window ELSE i + n
    ELSE i + 1

\* The new start index, the overlap window ignored.
AdvanceNoOverlap(i, n, window, overlap) ==
    IF n > 0 THEN i + n ELSE i + 1

\* The new start index, one sentence too far when no overlap is configured.
AdvanceSkip(i, n, window, overlap) ==
    IF n > 0
    THEN IF overlap > 0 THEN Max(i + n - window, i + 1) ELSE i + n + 1
    ELSE i + 1

\* Lines 63-89: the new start index after a chunk of n sentences.
Advance(i, n, window, overlap) ==
    IF n > 0
    THEN IF overlap > 0 THEN Max(i + n - window, i + 1) ELSE i + n
    ELSE i + 1

\* One iteration of the while loop at start index i (0-based).
ChunkIteration(sents, i, size, overlap) ==
    LET n == PackLoop(sents, i + 1, 0, 0, size)
        current_chunk == SubSeq(sents, i + 1, i + n)
        window == IF n > 0 THEN OverlapWindow(current_chunk, overlap) ELSE 0
    IN  [n |-> n,
         current_chunk |-> current_chunk,
         window |-> window,
         next |-> Advance(i, n, window, overlap)]

\* Lines 40-91: the while loop from start index i, as a function.
RECURSIVE ChunkLoop(_, _, _, _)
ChunkLoop(sents, i, size, overlap) ==
    IF i >= Len(sents) THEN <<>>
    ELSE LET it == ChunkIteration(sents, i, size, overlap)
         IN  (IF it.n > 0 THEN <<Join(it.current_chunk)>> ELSE <<>>)
                 \o ChunkLoop(sents, it.next, size, overlap)

\* DocumentProcessor.chunk_text as a function of its argument and the
\* configuration.
ChunkText(text, size, overlap) == ChunkLoop(SplitSentences(text), 0, size, overlap)

(***************************************************************************)
(* process_course_document: lines, labels and lesson markers.              *)
(***************************************************************************)
\* str.split('\n') from position from on.
RECURSIVE SplitLinesFrom(_, _)
SplitLinesFrom(s, from) ==
    LET breaks == {p \in from..Len(s) : Ch(s, p) = "\n"}
        first == MinOf(breaks)
    IN  IF breaks = {} THEN <<SubSeq(s, from, Len(s))>>
        ELSE <<SubSeq(s, from, first - 1)>> \o SplitLinesFrom(s, first + 1)

SplitLines(s) == SplitLinesFrom(s, 1)

\* '\n'.join(seq)
RECURSIVE JoinLines(_)
JoinLines(seq) ==
    IF Len(seq) = 0 THEN ""
    ELSE IF Len(seq) = 1 THEN seq[1]
    ELSE seq[1] \o "\n" \o JoinLines(Tail(seq))

UpperAlphabet == "ABCDEFGHIJKLMNOPQRSTUVWXYZ"
LowerAlphabet == "abcdefghijklmnopqrstuvwxyz"

LowerChar(c) ==
    IF IsUpper(c)
    THEN Ch(LowerAlphabet, CHOOSE k \in 1..Len(UpperAlphabet) : Ch(UpperAlphabet, k) = c)
    ELSE c

\* Case folding, for re.IGNORECASE.
RECURSIVE ToLower(_)
ToLower(s) == IF Len(s) = 0 THEN "" ELSE LowerChar(Ch(s, 1)) \o ToLower(Tail(s))

\* The group (.+) of a pattern that ends in \s*(.+)$, matched against rest;
\* None when rest is empty.  The greedy \s* leaves (.+) the text after the
\* leading whitespace, or the last character when there is nothing else.
TrailingGroup(rest) ==
    IF rest = "" THEN None
    ELSE IF LStrip(rest) = "" THEN Some(Ch(rest, Len(rest)))
    ELSE Some(LStrip(rest))

\* re.match(r'^<label>\s*(.+)$', line, re.IGNORECASE), with group(1).strip():
\* None, or the stripped group.  label is given in lower case.
MatchLabel(label, line) ==
    IF Len(line) >= Len(label) /\ ToLower(SubSeq(line, 1, Len(label))) = label
    THEN LET g == TrailingGroup(SubSeq(line, Len(label) + 1, Len(line)))
         IN  IF g = None THEN None ELSE Some(Strip(g[1]))
    ELSE None

\* The first position at or after p that holds no digit.
DigitsEnd(t, p) ==
    LET others == {r \in p..Len(t) : ~IsDigit(Ch(t, r))}
    IN  IF others = {} THEN Len(t) + 1 ELSE MinOf(others)

DigitValue(c) == CHOOSE v \in 0..9 : ToString(v) = c

\* int(s) for a string of digits.
RECURSIVE ParseInt(_)
ParseInt(s) ==
    IF Len(s) = 0 THEN 0
    ELSE 10 * ParseInt(SubSeq(s, 1, Len(s) - 1)) + DigitValue(Ch(s, Len(s)))

\* re.match(r'^Lesson\s+(\d+):\s*(.+)$', line, re.IGNORECASE): None, or the
\* lesson number int(group(1)) and the title group(2).strip().
MatchLesson(line) ==
    LET q == RunEnd(line, 7)
        r == DigitsEnd(line, q)
        g == TrailingGroup(SubSeq(line, r + 1, Len(line)))
    IN  IF /\ Len(line) >= 7
           /\ ToLower(SubSeq(line, 1, 6)) = "lesson"
           /\ q > 7
           /\ r > q
           /\ Ch(line, r) = ":"
           /\ g # None
        THEN Some([number |-> ParseInt(SubSeq(line, q, r - 1)), title |-> Strip(g[1])])
        ELSE None

(***************************************************************************)
(* process_course_document: the chunks of one unit of text.                *)
(***************************************************************************)
\* The chunk_index of the chunk at position idx of a lesson, numbered within
\* the lesson.
ChunkIndexInLesson(chunk_counter, idx) == idx

\* Lines 194-197, 240-243, 254-257: the chunk at position idx (from 0) of a
\* unit gets the counter's value, which has been incremented idx times since
\* the unit began.
ChunkIndex(chunk_counter, idx) == chunk_counter + idx

\* The stored content of an interior lesson's chunk, every chunk prefixed.
InteriorContentEveryChunk(course_title, lesson, idx, chunk) ==
    "Lesson " \o ToString(lesson) \o " content: " \o chunk

\* Lines 185-188: the stored content of an interior lesson's chunk.
InteriorContent(course_title, lesson, idx, chunk) ==
    IF idx = 0
    THEN "Lesson " \o ToString(lesson) \o " content: " \o chunk
    ELSE chunk

\* The stored content of the last lesson's chunk, prefixed as an interior
\* lesson's chunk is.
TrailingContentAsInterior(course_title, lesson, idx, chunk) ==
    IF idx = 0
    THEN "Lesson " \o ToString(lesson) \o " content: " \o chunk
    ELSE chunk

\* Line 234: the stored content of the last lesson's chunk.
TrailingContent(course_title, lesson, idx, chunk) ==
    "Course " \o course_title \o " Lesson " \o ToString(lesson) \o " content: " \o chunk

\* Lines 183-197: the CourseChunks of a lesson sealed by the next marker.
InteriorChunks(texts, course_title, lesson, chunk_counter) ==
    [k \in 1..Len(texts) |->
        [content |-> InteriorContent(course_title, lesson, k - 1, texts[k]),
         course_title |-> course_title,
         lesson_number |-> Some(lesson),
         chunk_index |-> ChunkIndex(chunk_counter, k - 1)]]

\* Lines 231-243: the CourseChunks of the last lesson.
TrailingChunks(texts, course_title, lesson, chunk_counter) ==
    [k \in 1..Len(texts) |->
        [content |-> TrailingContent(course_title, lesson, k - 1, texts[k]),
         course_title |-> course_title,
         lesson_number |-> Some(lesson),
         chunk_index |-> ChunkIndex(chunk_counter, k - 1)]]

\* Lines 250-257: the CourseChunks of a document without lessons.
AnonymousChunks(texts, course_title, chunk_counter) ==
    [k \in 1..Len(texts) |->
        [content |-> texts[k],
         course_title |-> course_title,
         lesson_number |-> None,
         chunk_index |-> ChunkIndex(chunk_counter, k - 1)]]

(***************************************************************************)
(* process_course_document, step by step on the record of its locals.      *)
(***************************************************************************)
\* Lines 124-139: the metadata lines at indices from..3 (0-based), folded
\* into the pair (course_link, instructor_name).
RECURSIVE HeaderScan(_, _, _)
HeaderScan(lines, from, acc) ==
    IF from >= Min(Len(lines), 4) THEN acc
    ELSE LET line == Strip(lines[from + 1])
             link_match == MatchLabel("course link:", line)
             instructor_match == MatchLabel("course instructor:", line)
         IN  IF line = "" THEN HeaderScan(lines, from + 1, acc)
             ELSE IF link_match # None
                  THEN HeaderScan(lines, from + 1,
                                  [acc EXCEPT !.course_link = link_match])
             ELSE IF instructor_match # None
                  THEN HeaderScan(lines, from + 1,
                                  [acc EXCEPT !.instructor_name = instructor_match[1]])
             ELSE HeaderScan(lines, from + 1, acc)

\* The locals before the call.
DocNotStarted ==
    [pc |-> "start", lines |-> <<>>,
     course |-> [title |-> "", course_link |-> None, instructor |-> None,
                 lessons |-> <<>>],
     course_chunks |-> <<>>, current_lesson |-> None, lesson_title |-> None,
     lesson_link |-> None, lesson_content |-> <<>>, chunk_counter |-> 0,
     start_index |-> 0, i |-> 0]

\* Lines 105-161: read the file, parse the metadata lines, create the
\* Course and set the scan up.
DocBegin(file) ==
    LET lines == SplitLines(Strip(file.content))
        title_match == MatchLabel("course title:", Strip(lines[1]))
        course_title ==
            IF Len(lines) >= 1 /\ Strip(lines[1]) # ""
            THEN IF title_match # None THEN title_match[1] ELSE Strip(lines[1])
            ELSE file.name
        meta == HeaderScan(lines, 1, [course_link |-> None, instructor_name |-> "Unknown"])
        start_index == IF Len(lines) > 3 /\ Strip(lines[4]) = "" THEN 4 ELSE 3
    IN  [DocNotStarted EXCEPT
            !.pc = "scan",
            !.lines = lines,
            !.course = [title |-> course_title,
                        course_link |-> meta.course_link,
                        instructor |-> IF meta.instructor_name # "Unknown"
                                       THEN Some(meta.instructor_name)
                                       ELSE None,
                        lessons |-> <<>>],
            !.start_index = start_index,
            !.i = start_index]

\* Lines 170-197: on a marker, the previous lesson, if it has text, is added
\* to the course and chunked.
SealInterior(d, size, overlap) ==
    LET lesson_text == Strip(JoinLines(d.lesson_content))
        texts == ChunkText(lesson_text, size, overlap)
    IN  IF d.current_lesson # None /\ d.lesson_content # <<>> /\ lesson_text # ""
        THEN [d EXCEPT
                !.course.lessons =
                    Append(@, [lesson_number |-> d.current_lesson[1],
                               title |-> d.lesson_title[1],
                               lesson_link |-> d.lesson_link]),
                !.course_chunks =
                    @ \o InteriorChunks(texts, d.course.title, d.current_lesson[1],
                                        d.chunk_counter),
                !.chunk_counter = @ + Len(texts)]
        ELSE d

\* Lines 162-217: one iteration of the scan.
DocScanLine(d, size, overlap) ==
    LET line == d.lines[d.i + 1]
        lesson_match == MatchLesson(Strip(line))
        sealed == SealInterior(d, size, overlap)
        link_match ==
            IF d.i + 1 < Len(d.lines)
            THEN MatchLabel("lesson link:", Strip(d.lines[d.i + 2]))
            ELSE None
    IN  IF lesson_match # None
        THEN [sealed EXCEPT
                !.current_lesson = Some(lesson_match[1].number),
                !.lesson_title = Some(lesson_match[1].title),
                !.lesson_link = link_match,
                !.lesson_content = <<>>,
                !.i = IF link_match # None THEN d.i + 2 ELSE d.i + 1]
        ELSE [d EXCEPT !.lesson_content = Append(@, line), !.i = d.i + 1]

\* Lines 219-243: after the scan, the last lesson, if it has text, is added
\* to the course and chunked.
DocLastLesson(d, size, overlap) ==
    LET lesson_text == Strip(JoinLines(d.lesson_content))
        texts == ChunkText(lesson_text, size, overlap)
    IN  IF d.current_lesson # None /\ d.lesson_content # <<>> /\ lesson_text # ""
        THEN [d EXCEPT
                !.pc = "fallback",
                !.course.lessons =
                    Append(@, [lesson_number |-> d.current_lesson[1],
                               title |-> d.lesson_title[1],
                               lesson_link |-> d.lesson_link]),
                !.course_chunks =
                    @ \o TrailingChunks(texts, d.course.title, d.current_lesson[1],
                                        d.chunk_counter),
                !.chunk_counter = @ + Len(texts)]
        ELSE [d EXCEPT !.pc = "fallback"]

\* Lines 245-259: without any chunk so far, the whole body is chunked; then
\* the course and the chunks are returned.
DocFallback(d, size, overlap) ==
    LET remaining_content ==
            Strip(JoinLines(SubSeq(d.lines, d.start_index + 1, Len(d.lines))))
        texts == ChunkText(remaining_content, size, overlap)
    IN  IF d.course_chunks = <<>> /\ Len(d.lines) > 2 /\ remaining_content # ""
        THEN [d EXCEPT
                !.pc = "done",
                !.course_chunks = AnonymousChunks(texts, d.course.title, d.chunk_counter),
                !.chunk_counter = @ + Len(texts)]
        ELSE [d EXCEPT !.pc = "done"]

\* The step the call takes from the locals d.
DocStep(file, d, size, overlap) ==
    IF d.pc = "start" THEN DocBegin(file)
    ELSE IF d.pc = "scan"
         THEN IF d.i < Len(d.lines)
              THEN DocScanLine(d, size, overlap)
              ELSE DocLastLesson(d, size, overlap)
    ELSE IF d.pc = "fallback" THEN DocFallback(d, size, overlap)
    ELSE d

RECURSIVE DocRun(_, _, _, _)
DocRun(file, d, size, overlap) ==
    IF d.pc = "done" THEN d ELSE DocRun(file, DocStep(file, d, size, overlap), size, overlap)

\* DocumentProcessor.process_course_document: the pair (course, course_chunks).
ProcessCourseDocument(file, size, overlap) ==
    LET d == DocRun(file, DocNotStarted, size, overlap)
    IN  [course |-> d.course, course_chunks |-> d.course_chunks]

(***************************************************************************)
(* The semantic index (ChromaDB): two collections, each a function from    *)
(* ids to entries [document, metadata].  Its add, its filter and its       *)
(* ranking are the collaborator's; what a query returns or raises is the   *)
(* environment's choice among the outcomes below.                          *)
(***************************************************************************)
EmptyCollection == <<>>

\* collection.add(documents, metadatas, ids): an upsert by id.
IndexAdd(collection, ids, entries) ==
    [id \in DOMAIN collection \cup {ids[k] : k \in 1..Len(ids)} |->
        IF \E k \in 1..Len(ids) : ids[k] = id
        THEN entries[MaxOf({k \in 1..Len(ids) : ids[k] = id})]
        ELSE collection[id]]

\* One equality of a where-filter, on an entry's metadata.  A metadata field
\* that was left out is None here and equals no value.
MatchesEquality(metadata, condition) ==
    IF "course_title" \in DOMAIN condition
    THEN metadata.course_title = condition.course_title
    ELSE metadata.lesson_number = Some(condition.lesson_number)

\* The where-filter of a query, on an entry's metadata.
MatchesFilter(metadata, where) ==
    IF where = None THEN TRUE
    ELSE IF "and" \in DOMAIN where[1]
         THEN \A k \in 1..Len(where[1].and) : MatchesEquality(metadata, where[1].and[k])
         ELSE MatchesEquality(metadata, where[1])

\* What an index operation may raise.
IndexErrors == {"index unavailable"}

\* The rankings of n of the ids: the sequences of n distinct ids.
Rankings(ids, n) ==
    { r \in [1..n -> ids] : \A j, k \in 1..n : j # k => r[j] # r[k] }

\* The outcomes of collection.query(query_texts, n_results, where): it
\* raises, or it returns the nearest n_results matching entries (all of them
\* when there are fewer), each with a distance.  top_distances are the
\* distances the first hit may have; a later hit's distance is not modelled
\* apart from its rank.
QueryOutcomes(collection, n_results, where, top_distances) ==
    LET matching == {id \in DOMAIN collection : MatchesFilter(collection[id].metadata, where)}
        n == Min(n_results, Cardinality(matching))
    IN  { [raised |-> Some(e), hits |-> <<>>] : e \in IndexErrors }
        \cup
        { [raised |-> None,
           hits |-> [k \in 1..n |->
                        [document |-> collection[r[k]].document,
                         metadata |-> collection[r[k]].metadata,
                         distance |-> IF k = 1 THEN d ELSE d + k - 1]]] :
              r \in Rankings(matching, n), d \in top_distances }

(***************************************************************************)
(* VectorStore: writes.                                                    *)
(***************************************************************************)
\* str.replace(' ', '_')
RECURSIVE ReplaceSpaces(_)
ReplaceSpaces(s) ==
    LET spaces == {p \in 1..Len(s) : Ch(s, p) = " "}
        first == MinOf(spaces)
    IN  IF spaces = {} THEN s
        ELSE SubSeq(s, 1, first - 1) \o "_" \o ReplaceSpaces(SubSeq(s, first + 1, Len(s)))

\* Line 187: the id of a chunk in the content collection.
ChunkId(chunk) ==
    (IF chunk.course_title # "" THEN ReplaceSpaces(chunk.course_title) ELSE "unknown")
        \o "_" \o ToString(chunk.chunk_index)

\* Lines 139-166: add_course_metadata, on the catalog.  lessons_json stands
\* for the JSON text of the lesson list.
AddCourseMetadata(catalog_, course) ==
    IndexAdd(catalog_, <<course.title>>,
             <<[document |-> course.title,
                metadata |-> [title |-> course.title,
                              lessons_json |-> [k \in 1..Len(course.lessons) |->
                                  [lesson_number |-> course.lessons[k].lesson_number,
                                   lesson_title |-> course.lessons[k].title,
                                   lesson_link |-> course.lessons[k].lesson_link]],
                              lesson_count |-> Len(course.lessons),
                              instructor |-> course.instructor,
                              course_link |-> course.course_link]]>>)

\* Lines 170-193: add_course_content, on the content collection.
AddCourseContent(content_, course_chunks) ==
    IF course_chunks = <<>> THEN content_
    ELSE IndexAdd(content_,
                  [k \in 1..Len(course_chunks) |-> ChunkId(course_chunks[k])],
                  [k \in 1..Len(course_chunks) |->
                      [document |-> course_chunks[k].content,
                       metadata |-> [course_title |-> course_chunks[k].course_title,
                                     chunk_index |-> course_chunks[k].chunk_index,
                                     lesson_number |-> course_chunks[k].lesson_number]]])

(***************************************************************************)
(* VectorStore.search, step by step on the record of its locals.           *)
(***************************************************************************)
\* Python's truth value of an Optional[str]: neither None nor empty.
Truthy(optional) == optional # None /\ optional[1] # ""

\* Lines 25-28: SearchResults.empty(error_msg)
SearchResultsEmpty(error_msg) ==
    [documents |-> <<>>, metadata |-> <<>>, distances |-> <<>>, error |-> Some(error_msg)]

\* Lines 16-23: SearchResults.from_chroma(chroma_results)
SearchResultsFromChroma(hits) ==
    [documents |-> [k \in 1..Len(hits) |-> hits[k].document],
     metadata |-> [k \in 1..Len(hits) |-> hits[k].metadata],
     distances |-> [k \in 1..Len(hits) |-> hits[k].distance],
     error |-> None]

\* _build_filter with the lesson number tested for its truth value.
BuildFilterLessonTruthy(course_title, lesson_number) ==
    LET has_lesson == lesson_number # None /\ lesson_number[1] # 0
    IN  IF ~Truthy(course_title) /\ ~has_lesson THEN None
        ELSE IF Truthy(course_title) /\ has_lesson
             THEN Some([and |-> <<[course_title |-> course_title[1]],
                                  [lesson_number |-> lesson_number[1]]>>])
        ELSE IF Truthy(course_title) THEN Some([course_title |-> course_title[1]])
        ELSE Some([lesson_number |-> lesson_number[1]])

\* Lines 118-133: _build_filter.  The dict {"$and": [...]} is the record
\* with the field and.
BuildFilter(course_title, lesson_number) ==
    IF ~Truthy(course_title) /\ lesson_number = None THEN None
    ELSE IF Truthy(course_title) /\ lesson_number # None
         THEN Some([and |-> <<[course_title |-> course_title[1]],
                              [lesson_number |-> lesson_number[1]]>>])
    ELSE IF Truthy(course_title) THEN Some([course_title |-> course_title[1]])
    ELSE Some([lesson_number |-> lesson_number[1]])

\* _resolve_course_name with a ceiling on the distance of the hit.
ResolveCourseNameNear(outcome) ==
    IF outcome.raised # None THEN None
    ELSE IF outcome.hits # <<>> /\ outcome.hits[1].distance = 0
         THEN Some(outcome.hits[1].metadata.title)
    ELSE None

\* Lines 102-116: _resolve_course_name, given the outcome of the catalog
\* query with n_results=1.
ResolveCourseName(outcome) ==
    IF outcome.raised # None THEN None
    ELSE IF outcome.hits # <<>> THEN Some(outcome.hits[1].metadata.title)
    ELSE None

\* The locals of search when no call is in progress.
SearchIdle ==
    [pc |-> "idle", query |-> "", course_name |-> None, lesson_number |-> None,
     limit |-> None, course_title |-> None, filter_dict |-> None, result |-> None]

\* Lines 85-90: the filter is built and the content query is next.
SearchToQuery(s, course_title) ==
    [s EXCEPT !.pc = "query",
              !.course_title = course_title,
              !.filter_dict = BuildFilter(course_title, s.lesson_number)]

\* Lines 78-86: the call, up to the catalog query or, without a course
\* name, up to the content query.
SearchBegin(query, course_name, lesson_number, limit) ==
    LET s == [SearchIdle EXCEPT !.query = query, !.course_name = course_name,
                                !.lesson_number = lesson_number, !.limit = limit]
    IN  IF Truthy(course_name) THEN [s EXCEPT !.pc = "resolve"]
        ELSE SearchToQuery(s, None)

\* search after the resolution, going on to the content query whatever the
\* resolution returned.
SearchResolvedNoReturn(s, course_title) == SearchToQuery(s, course_title)

\* Lines 81-86: search after _resolve_course_name has returned course_title.
SearchResolved(s, course_title) ==
    IF ~Truthy(course_title)
    THEN [s EXCEPT !.pc = "done",
                   !.course_title = course_title,
                   !.result = Some(SearchResultsEmpty(
                       "No course found matching '" \o s.course_name[1] \o "'"))]
    ELSE SearchToQuery(s, course_title)

\* Line 90: search_limit
SearchLimit(s, max_results) == IF s.limit # None THEN s.limit[1] ELSE max_results

\* Lines 92-100: search after the content query.
SearchQueried(s, outcome) ==
    [s EXCEPT !.pc = "done",
              !.result = IF outcome.raised # None
                         THEN Some(SearchResultsEmpty("Search error: " \o outcome.raised[1]))
                         ELSE Some(SearchResultsFromChroma(outcome.hits))]

(***************************************************************************)
(* The parts of the state a specification does not exercise stay as        *)
(* follows.                                                                *)
(***************************************************************************)
\* config.py: MAX_HISTORY, the number of exchanges a session remembers.
MAX_HISTORY == 2

\* rag_system.py lines 63-64: the locals of add_course_folder before a call.
\* listing holds the entries the loop has yet to visit; listed and log are
\* history: what os.listdir returned, and one record per eligible file the
\* loop has handled.
FolderNotCalled ==
    [pc |-> "idle", clear_existing |-> FALSE, listed |-> <<>>, listing |-> <<>>,
     existing_course_titles |-> {}, total_courses |-> 0, total_chunks |-> 0,
     log |-> <<>>]

\* rag_system.py lines 102-140: the locals of query before a call.
\* tool_calls is the number of tool calls of the model's response that are
\* still to be executed; searched is history: whether a search of this call
\* returned results.
QueryNotCalled ==
    [pc |-> "idle", session_id |-> None, tool_calls |-> 0, searched |-> FALSE,
     sources |-> <<>>]

\* No call of chunk_text is being followed.
ChunkIdle ==
    /\ c_pc = "idle"
    /\ c_text = ""
    /\ sentences = <<>>
    /\ c_i = 0
    /\ chunks = <<>>
    /\ c_hist = <<>>

\* No call of process_course_document is being followed.
DocIdle ==
    /\ d_file = [name |-> "", content |-> ""]
    /\ doc = [DocNotStarted EXCEPT !.pc = "idle"]

\* The index is empty and no search is in progress.
StoreIdle ==
    /\ catalog = EmptyCollection
    /\ content = EmptyCollection
    /\ search = SearchIdle
    /\ index_calls = <<>>
    /\ last_added = None

\* No call of add_course_folder is being followed.
FolderIdle == folder = FolderNotCalled

\* session_manager.py lines 13-16: a SessionManager(config.MAX_HISTORY) that
\* no one has used.
SessionIdle ==
    /\ max_history = MAX_HISTORY
    /\ sessions = <<>>
    /\ session_counter = 0
    /\ s_added = <<>>

\* search_tools.py line 25: no query is in progress and no search has run.
QueryIdle ==
    /\ last_sources = <<>>
    /\ rq = QueryNotCalled

(***************************************************************************)
(* chunk_text as a state machine: one step per iteration of the while      *)
(* loop.                                                                   *)
(***************************************************************************)
\* Pieces of input text: a short sentence, an abbreviation that must not
\* split, a sentence with a line break and a doubled space inside, and a
\* fragment without closing punctuation.
TextTokens == {"A.", "Dr. No  ok!", "Bb\ncc?", "and"}

InputTexts ==
    { Join(seq) : seq \in UNION { [1..n -> TextTokens] : n \in 0..MaxTokens } }

\* A call chunk_text(text) on a DocumentProcessor(chunk_size, chunk_overlap).
ChunkInit ==
    /\ c_pc = "start"
    /\ c_text \in InputTexts
    /\ chunk_size \in 0..MaxChunkSize
    /\ chunk_overlap \in 0..MaxOverlap
    /\ sentences = <<>>
    /\ c_i = 0
    /\ chunks = <<>>
    /\ c_hist = <<>>
    /\ DocIdle
    /\ StoreIdle
    /\ FolderIdle
    /\ SessionIdle
    /\ QueryIdle

\* Lines 29-41.
ChunkStart ==
    /\ c_pc = "start"
    /\ sentences' = SplitSentences(c_text)
    /\ chunks' = <<>>
    /\ c_i' = 0
    /\ c_pc' = "loop"
    /\ UNCHANGED <<c_text, c_hist, configVars, folderVars, sessionVars, queryVars, docVars, storeVars>>

\* Lines 43-89: one iteration of the while loop.
ChunkStep ==
    /\ c_pc = "loop"
    /\ c_i < Len(sentences)
    /\ LET it == ChunkIteration(sentences, c_i, chunk_size, chunk_overlap)
       IN  /\ chunks' = IF it.n > 0
                        THEN Append(chunks, Join(it.current_chunk))
                        ELSE chunks
           /\ c_i' = it.next
           /\ c_hist' = Append(c_hist,
                               [start |-> c_i, n |-> it.n, window |-> it.window])
    /\ UNCHANGED <<c_pc, c_text, sentences, configVars, folderVars, sessionVars, queryVars, docVars, storeVars>>

\* Line 91: the loop condition fails and the chunks are returned.
ChunkReturn ==
    /\ c_pc = "loop"
    /\ c_i >= Len(sentences)
    /\ c_pc' = "done"
    /\ UNCHANGED <<c_text, sentences, c_i, chunks, c_hist, configVars, folderVars, sessionVars, queryVars, docVars, storeVars>>

ChunkNext == ChunkStart \/ ChunkStep \/ ChunkReturn

SpecChunk == ChunkInit /\ [][ChunkNext]_vars

(***************************************************************************)
(* process_course_document as a state machine: one step per line scanned.  *)
(***************************************************************************)
\* The metadata block: a title and an instructor (the link left out), all
\* three lines, a title alone, and none; the first two end in a blank line.
\* A file records, besides its content, the header and the body lines it
\* was written from.
DocHeaders ==
    { <<"Course Title: Intro", "Course Instructor: Ada", "">>,
      <<"Course Title: Intro", "Course Link: http://c", "Course Instructor: Ada", "">>,
      <<"Course Title: Intro">>,
      <<>> }

\* The lines a body is made of: two lesson markers, a lesson link and a
\* line of text of two sentences.
DocBodyLines ==
    { "Lesson 0: Start", "Lesson 1: Next", "Lesson Link: http://l",
      "Hello world. This is lesson zero." }

DocBodies == UNION { [1..n -> DocBodyLines] : n \in 0..MaxBodyLines }

DocFiles ==
    { [name |-> "course1.txt", content |-> JoinLines(h \o b),
       header |-> h, body |-> b] :
          h \in DocHeaders, b \in DocBodies }

\* (chunk_size, chunk_overlap): a budget that holds the line of text in one
\* chunk, and one that splits it.
DocConfigs == { <<100, 0>>, <<20, 0>> }

\* A call process_course_document(file_path) on a
\* DocumentProcessor(chunk_size, chunk_overlap).
DocInit ==
    /\ d_file \in DocFiles
    /\ \E config \in DocConfigs : chunk_size = config[1] /\ chunk_overlap = config[2]
    /\ doc = DocNotStarted
    /\ ChunkIdle
    /\ StoreIdle
    /\ FolderIdle
    /\ SessionIdle
    /\ QueryIdle

\* Lines 105-161.
DocStart ==
    /\ doc.pc = "start"
    /\ doc' = DocBegin(d_file)
    /\ UNCHANGED <<d_file, configVars, folderVars, sessionVars, queryVars, chunkVars, storeVars>>

\* Lines 162-217: one iteration of the scan.
DocScan ==
    /\ doc.pc = "scan"
    /\ doc.i < Len(doc.lines)
    /\ doc' = DocScanLine(doc, chunk_size, chunk_overlap)
    /\ UNCHANGED <<d_file, configVars, folderVars, sessionVars, queryVars, chunkVars, storeVars>>

\* Lines 219-243: the scan is over; the last lesson.
DocLast ==
    /\ doc.pc = "scan"
    /\ doc.i >= Len(doc.lines)
    /\ doc' = DocLastLesson(doc, chunk_size, chunk_overlap)
    /\ UNCHANGED <<d_file, configVars, folderVars, sessionVars, queryVars, chunkVars, storeVars>>

\* Lines 245-259: the pass for a document without lessons, and the return.
DocFinish ==
    /\ doc.pc = "fallback"
    /\ doc' = DocFallback(doc, chunk_size, chunk_overlap)
    /\ UNCHANGED <<d_file, configVars, folderVars, sessionVars, queryVars, chunkVars, storeVars>>

DocNext == DocStart \/ DocScan \/ DocLast \/ DocFinish

SpecDoc == DocInit /\ [][DocNext]_vars

(***************************************************************************)
(* The vector store: documents are added while no search is in progress    *)
(* (the request handlers run one at a time on the event loop), and a       *)
(* search takes one step per query it makes on the index.                  *)
(***************************************************************************)
\* The files added: a course Intro, a later version of it with one lesson of
\* one chunk, a course without metadata labels or lessons, and a course
\* whose title has an underscore where that one has a space.
StoreFiles ==
    { [name |-> "intro.txt",
       content |-> "Course Title: Intro\nCourse Instructor: Ada\n\nLesson 0: Start\nHello world. This is lesson zero."],
      [name |-> "intro2.txt",
       content |-> "Course Title: Intro\n\n\nLesson 1: Next\nHello world."],
      [name |-> "other.txt",
       content |-> "Other Course\nnotes\n\n\nHello world."],
      [name |-> "other2.txt",
       content |-> "Other_Course\nnotes\n\n\nBye now."] }

\* The arguments of the searches.
SearchQueries == {"q"}
SearchCourseNames == {None, Some(""), Some("Intr"), Some("Nonexistent")}
SearchLessonNumbers == {None, Some(0), Some(1)}
SearchLimits == {None, Some(1)}

StoreInit ==
    /\ StoreIdle
    /\ chunk_size = 20
    /\ chunk_overlap = 0
    /\ ChunkIdle
    /\ DocIdle
    /\ FolderIdle
    /\ SessionIdle
    /\ QueryIdle

\* RAGSystem.add_course_document, rag_system.py lines 37-50: the document is
\* processed, then the catalog and the content collection are written; a
\* write that raises ends the call.
AddCourseDocument ==
    /\ search.pc = "idle"
    /\ \E file \in StoreFiles, outcome \in {"added", "metadata raises", "content raises"} :
           LET processed == ProcessCourseDocument(file, chunk_size, chunk_overlap)
           IN  /\ catalog' = IF outcome = "metadata raises"
                             THEN catalog
                             ELSE AddCourseMetadata(catalog, processed.course)
               /\ content' = IF outcome = "added"
                             THEN AddCourseContent(content, processed.course_chunks)
                             ELSE content
               /\ last_added' = Some([file |-> file, outcome |-> outcome])
    /\ UNCHANGED <<search, index_calls, configVars, folderVars, sessionVars, queryVars, chunkVars, docVars>>

\* Lines 78-86: search is called.
SearchCall ==
    /\ search.pc = "idle"
    /\ \E query \in SearchQueries, course_name \in SearchCourseNames,
          lesson_number \in SearchLessonNumbers, limit \in SearchLimits :
           search' = SearchBegin(query, course_name, lesson_number, limit)
    /\ index_calls' = <<>>
    /\ UNCHANGED <<catalog, content, last_added, configVars, folderVars, sessionVars, queryVars, chunkVars, docVars>>

\* Lines 81-86 and 102-116: the catalog query of _resolve_course_name
\* returns or raises, and search goes on from its result.
SearchResolve ==
    /\ search.pc = "resolve"
    /\ \E outcome \in QueryOutcomes(catalog, 1, None, 0..MaxDistance) :
           /\ search' = SearchResolved(search, ResolveCourseName(outcome))
           /\ index_calls' = Append(index_calls,
                                    [collection |-> "course_catalog", outcome |-> outcome])
    /\ UNCHANGED <<catalog, content, last_added, configVars, folderVars, sessionVars, queryVars, chunkVars, docVars>>

\* Lines 92-100: the content query returns or raises.
SearchContent ==
    /\ search.pc = "query"
    /\ \E outcome \in QueryOutcomes(content, SearchLimit(search, MaxResults),
                                     search.filter_dict, {0}) :
           /\ search' = SearchQueried(search, outcome)
           /\ index_calls' = Append(index_calls,
                                    [collection |-> "course_content", outcome |-> outcome])
    /\ UNCHANGED <<catalog, content, last_added, configVars, folderVars, sessionVars, queryVars, chunkVars, docVars>>

\* The caller has taken the result.
SearchReturn ==
    /\ search.pc = "done"
    /\ search' = SearchIdle
    /\ index_calls' = <<>>
    /\ UNCHANGED <<catalog, content, last_added, configVars, folderVars, sessionVars, queryVars, chunkVars, docVars>>

StoreNext ==
    AddCourseDocument \/ SearchCall \/ SearchResolve \/ SearchContent \/ SearchReturn

SpecStore == StoreInit /\ [][StoreNext]_vars

(***************************************************************************)
(* Properties of chunk_text.                                               *)
(***************************************************************************)
\* The iterations that emitted a chunk: Emitted[k] describes chunks[k].
Emitted == SelectSeq(c_hist, LAMBDA h : h.n > 0)

\* The sentences of chunk k.
ChunkSentences(k) ==
    SubSeq(sentences, Emitted[k].start + 1, Emitted[k].start + Emitted[k].n)

\* The sentence lists of chunks k.. concatenated.
RECURSIVE ConcatFrom(_)
ConcatFrom(k) ==
    IF k > Len(chunks) THEN <<>> ELSE ChunkSentences(k) \o ConcatFrom(k + 1)

\* C1: every emitted chunk is at most chunk_size characters long, unless it
\* consists of exactly one sentence that is itself longer than chunk_size.
ChunkSizeBound ==
    \A k \in 1..Len(chunks) :
        \/ Len(chunks[k]) <= chunk_size
        \/ /\ Emitted[k].n = 1
           /\ chunks[k] = sentences[Emitted[k].start + 1]
           /\ Len(sentences[Emitted[k].start + 1]) > chunk_size

\* C1 witness: a finished call that emitted both an oversized one-sentence
\* chunk and a chunk of several sentences.
ChunkSizeBoundWitness ==
    /\ c_pc = "done"
    /\ \E k \in 1..Len(chunks) : Len(chunks[k]) > chunk_size
    /\ \E k \in 1..Len(chunks) : Emitted[k].n >= 2

\* C2: the start index strictly increases from one emitted chunk to the
\* next, and the loop runs at most len(sentences) iterations.
StartIndexIncreases ==
    /\ \A k \in 1..(Len(Emitted) - 1) : Emitted[k].start < Emitted[k + 1].start
    /\ \A k \in 1..Len(c_hist) : c_hist[k].start < c_i
    /\ Len(c_hist) <= Len(sentences)
    /\ (c_pc = "done" => c_i >= Len(sentences))

\* C2 witness: a finished call with several chunks in which the overlap
\* budget covered a whole chunk, so that only the clamp moved the index on.
StartIndexIncreasesWitness ==
    /\ c_pc = "done"
    /\ Len(chunks) >= 3
    /\ \E k \in 1..Len(chunks) :
           /\ Emitted[k].window = Emitted[k].n
           /\ chunk_overlap > Len(chunks[k])

\* Chunks k and k+1 share a sentence: chunk k+1 starts inside chunk k, so
\* its first sentence is one of the last sentences of chunk k.
SharesSentence(k) ==
    /\ Emitted[k + 1].start >= Emitted[k].start
    /\ Emitted[k + 1].start < Emitted[k].start + Emitted[k].n
    /\ ChunkSentences(k + 1)[1] = sentences[Emitted[k + 1].start + 1]
    /\ \E m \in 1..Emitted[k].n : ChunkSentences(k)[m] = ChunkSentences(k + 1)[1]

\* C3 as stated: with an overlap configured, consecutive chunks share a
\* sentence unless the overlap window of the earlier one is 0.
OverlapSharesUnlessWindowZero ==
    chunk_overlap > 0 =>
        \A k \in 1..(Len(chunks) - 1) : Emitted[k].window > 0 => SharesSentence(k)

\* C3 as amended: with an overlap configured, consecutive chunks share a
\* sentence unless the overlap window of the earlier one is 0 or the earlier
\* chunk is a single sentence.
OverlapSharesSentence ==
    chunk_overlap > 0 =>
        \A k \in 1..(Len(chunks) - 1) :
            (Emitted[k].window > 0 /\ Emitted[k].n >= 2) => SharesSentence(k)

\* C3 witness: two consecutive chunks of a finished call that share a
\* sentence, the earlier one with a non-zero window.
OverlapSharesSentenceWitness ==
    /\ c_pc = "done"
    /\ chunk_overlap > 0
    /\ \E k \in 1..(Len(chunks) - 1) :
           /\ Emitted[k].window > 0
           /\ Emitted[k].n >= 2
           /\ Emitted[k + 1].n >= 2
           /\ SharesSentence(k)

\* C4: no chunk is empty, every sentence is in some chunk, and without
\* overlap the chunks' sentence lists concatenate to the sentence list.
ChunksCoverSentences ==
    /\ \A k \in 1..Len(chunks) : chunks[k] # "" /\ chunks[k] = Join(ChunkSentences(k))
    /\ Len(Emitted) = Len(c_hist)
    /\ c_pc = "done" =>
           /\ \A j \in 1..Len(sentences) :
                  \E k \in 1..Len(chunks) :
                      /\ Emitted[k].start < j
                      /\ j <= Emitted[k].start + Emitted[k].n
           /\ chunk_overlap = 0 => ConcatFrom(1) = sentences

\* C4 witness: a finished call without overlap that split three or more
\* sentences into several chunks.
ChunksCoverSentencesWitness ==
    /\ c_pc = "done"
    /\ chunk_overlap = 0
    /\ Len(sentences) >= 3
    /\ Len(chunks) >= 2
    /\ \E k \in 1..Len(chunks) : Emitted[k].n >= 2

(***************************************************************************)
(* Properties of process_course_document.                                  *)
(***************************************************************************)
\* The document of end-to-end scenario A.
ScenarioADocument ==
    "Course Title: Intro\nCourse Instructor: Ada\n\nLesson 0: Start\nHello world. This is lesson zero."

\* The call of scenario A has returned.
ScenarioADone ==
    /\ d_file.content = ScenarioADocument
    /\ chunk_size = 100
    /\ chunk_overlap = 0
    /\ doc.pc = "done"

\* Scenario A yields one course titled Intro with one lesson 0 titled Start
\* and one chunk.
ScenarioAShape ==
    /\ doc.course.title = "Intro"
    /\ Len(doc.course.lessons) = 1
    /\ doc.course.lessons[1].lesson_number = 0
    /\ doc.course.lessons[1].title = "Start"
    /\ Len(doc.course_chunks) = 1

\* C9 as stated: scenario A yields the course Intro, the lesson 0 Start and
\* the one chunk "Lesson 0 content: Hello world. This is lesson zero.".
ScenarioAInteriorPrefix ==
    ScenarioADone =>
        /\ ScenarioAShape
        /\ doc.course_chunks[1].content
               = "Lesson 0 content: Hello world. This is lesson zero."

\* C9 as amended: scenario A yields the course Intro, the lesson 0 Start and
\* the one chunk "Course Intro Lesson 0 content: Hello world. This is lesson
\* zero.", the lesson being the last of the document.
ScenarioAResult ==
    ScenarioADone =>
        /\ ScenarioAShape
        /\ doc.course.instructor = Some("Ada")
        /\ doc.course.course_link = None
        /\ doc.course_chunks[1].content
               = "Course Intro Lesson 0 content: Hello world. This is lesson zero."
        /\ doc.course_chunks[1].lesson_number = Some(0)
        /\ doc.course_chunks[1].course_title = "Intro"

\* C9 witness: the call of scenario A has returned a chunk.
ScenarioAWitness == ScenarioADone /\ doc.course_chunks # <<>>

\* C10: the chunk_index values of the chunks are 0, 1, 2, ... in output
\* order, hence unique and strictly increasing, and the chunks all name the
\* course.
ChunkIndexIncreasing ==
    /\ \A k \in 1..Len(doc.course_chunks) :
           /\ doc.course_chunks[k].chunk_index = k - 1
           /\ doc.course_chunks[k].course_title = doc.course.title
    /\ \A k, m \in 1..Len(doc.course_chunks) :
           k < m => doc.course_chunks[k].chunk_index < doc.course_chunks[m].chunk_index
    /\ doc.chunk_counter = Len(doc.course_chunks)

\* C10 witness: a returned call whose chunks come from an interior lesson of
\* several chunks and from the last lesson.
ChunkIndexIncreasingWitness ==
    /\ doc.pc = "done"
    /\ Len(doc.course.lessons) >= 2
    /\ Len(doc.course_chunks) >= 4
    /\ \E k \in 2..Len(doc.course_chunks) :
           doc.course_chunks[k].lesson_number # doc.course_chunks[1].lesson_number

\* C10 witness for the pass without lessons: a returned call whose chunks
\* carry no lesson number.
ChunkIndexAnonymousReached ==
    /\ doc.pc = "done"
    /\ Len(doc.course_chunks) >= 2
    /\ \A k \in 1..Len(doc.course_chunks) : doc.course_chunks[k].lesson_number = None

(***************************************************************************)
(* Properties of VectorStore.search.                                       *)
(***************************************************************************)
\* The queries the search in progress has made on one collection.
CallsOn(collection) == SelectSeq(index_calls, LAMBDA c : c.collection = collection)

\* s contains sub.
Contains(s, sub) == \E p \in 1..(Len(s) - Len(sub) + 1) : SubSeq(s, p, p + Len(sub) - 1) = sub

\* C5: _resolve_course_name returns None exactly when the catalog has no
\* entry or the catalog query raises; otherwise it returns the title of the
\* top hit, a title of the catalog, whatever the hit's distance.
ResolveUnresolvedIff ==
    \A k \in 1..Len(index_calls) :
        index_calls[k].collection = "course_catalog" =>
            LET outcome == index_calls[k].outcome
            IN  /\ search.course_title = None
                    <=> (DOMAIN catalog = {} \/ outcome.raised # None)
                /\ search.course_title # None =>
                       /\ Len(outcome.hits) = 1
                       /\ search.course_title = Some(outcome.hits[1].metadata.title)
                       /\ search.course_title[1] \in DOMAIN catalog

\* C5 witness: the name "Nonexistent" has been resolved to a title from a
\* hit at the largest distance.
ResolveUnresolvedIffWitness ==
    /\ search.course_name = Some("Nonexistent")
    /\ search.course_title # None
    /\ Len(CallsOn("course_catalog")) = 1
    /\ CallsOn("course_catalog")[1].outcome.hits[1].distance = MaxDistance

\* The search in progress was given a course name that was not resolved.
Unresolved == Truthy(search.course_name) /\ search.course_title = None

\* C6: a search whose course name is not resolved ends with the message
\* "No course found matching '<course_name>'" and without a content query;
\* any other search makes exactly one content query, after the resolution,
\* and no query is made twice.
SearchQueriesOnce ==
    /\ Len(CallsOn("course_content")) <= 1
    /\ Len(CallsOn("course_catalog")) <= 1
    /\ \A j, k \in 1..Len(index_calls) :
           (j < k /\ index_calls[j].collection = "course_content")
               => index_calls[k].collection # "course_catalog"
    /\ Len(CallsOn("course_content")) = 1 =>
           Len(CallsOn("course_catalog")) = (IF Truthy(search.course_name) THEN 1 ELSE 0)
    /\ search.pc = "done" =>
           IF Unresolved
           THEN /\ search.result # None
                /\ search.result[1].error
                       = Some("No course found matching '" \o search.course_name[1] \o "'")
                /\ search.result[1].documents = <<>>
                /\ Len(CallsOn("course_content")) = 0
                /\ Len(CallsOn("course_catalog")) = 1
           ELSE Len(CallsOn("course_content")) = 1

\* C6 witness: a search for a course name has ended unresolved on a catalog
\* without entries.
SearchQueriesOnceWitness ==
    /\ search.pc = "done"
    /\ Unresolved
    /\ DOMAIN catalog = {}
    /\ CallsOn("course_catalog")[1].outcome.raised = None

\* C6, the other case: a search for a course name has ended after its one
\* content query.
SearchQueriesOnceResolvedReached ==
    /\ search.pc = "done"
    /\ search.course_title # None
    /\ Len(index_calls) = 2

\* C7: when a query on the index raises, the result's error carries the
\* failure description, and a content query that returns no match gives a
\* result without documents and without error.
IndexFailureReported ==
    search.pc = "done" =>
        /\ \A k \in 1..Len(index_calls) :
               index_calls[k].outcome.raised # None =>
                   /\ search.result[1].error # None
                   /\ Contains(search.result[1].error[1], index_calls[k].outcome.raised[1])
        /\ \A k \in 1..Len(index_calls) :
               (/\ index_calls[k].collection = "course_content"
                /\ index_calls[k].outcome.raised = None
                /\ index_calls[k].outcome.hits = <<>>)
                   => (search.result[1].documents = <<>> /\ search.result[1].error = None)

\* C7, the part the code keeps: a content query that raises is reported with
\* its description, and one without a match gives no documents and no error.
ContentFailureReported ==
    search.pc = "done" =>
        \A k \in 1..Len(index_calls) :
            index_calls[k].collection = "course_content" =>
                IF index_calls[k].outcome.raised # None
                THEN search.result[1].error
                         = Some("Search error: " \o index_calls[k].outcome.raised[1])
                ELSE /\ search.result[1].error = None
                     /\ Len(search.result[1].documents) = Len(index_calls[k].outcome.hits)

\* The filter the four cases of (title, lesson number) call for.
FilterFor(course_title, lesson_number) ==
    CASE course_title = None /\ lesson_number = None -> None
      [] course_title # None /\ lesson_number = None ->
             Some([course_title |-> course_title[1]])
      [] course_title = None /\ lesson_number # None ->
             Some([lesson_number |-> lesson_number[1]])
      [] course_title # None /\ lesson_number # None ->
             Some([and |-> <<[course_title |-> course_title[1]],
                             [lesson_number |-> lesson_number[1]]>>])

\* C8: the filter built from (course_title, lesson_number) is none, the
\* title equality, the lesson equality or their conjunction, by which of the
\* two are present; a lesson number 0 is present.  The hits of the content
\* query satisfy the equalities.
FilterFourCases ==
    (search.pc = "query" \/ Len(CallsOn("course_content")) = 1) =>
        /\ search.filter_dict = FilterFor(search.course_title, search.lesson_number)
        /\ search.pc = "done" =>
               \A k \in 1..Len(search.result[1].metadata) :
                   /\ search.course_title # None =>
                          search.result[1].metadata[k].course_title = search.course_title[1]
                   /\ search.lesson_number # None =>
                          search.result[1].metadata[k].lesson_number = search.lesson_number

\* C8 witness: a search of lesson 0 of a resolved course has returned hits
\* under the conjunction of the two equalities.
FilterFourCasesWitness ==
    /\ search.pc = "done"
    /\ search.course_title # None
    /\ search.lesson_number = Some(0)
    /\ search.filter_dict # None
    /\ "and" \in DOMAIN search.filter_dict[1]
    /\ search.result[1].documents # <<>>

(***************************************************************************)
(* Properties of process_course_document: lessons, the body and the        *)
(* prefixes.                                                               *)
(***************************************************************************)
\* The lessons list of the returned Course.
Lessons == doc.course.lessons

\* C11: the lessons list of the Course that process_course_document returns
\* holds no two Lessons with the same lesson_number.
LessonNumbersUnique ==
    doc.pc = "done" =>
        \A a, b \in 1..Len(Lessons) :
            a # b => Lessons[a].lesson_number # Lessons[b].lesson_number

\* A document that repeats a marker number has been processed, each of the
\* two lessons with text.
LessonNumbersRepeatedReached ==
    /\ doc.pc = "done"
    /\ Len(Lessons) = 2
    /\ Lessons[1].lesson_number = Lessons[2].lesson_number

\* Line k of the body is a lesson marker.
IsMarker(body, k) == MatchLesson(Strip(body[k])) # None

\* Line k of the body is a Lesson Link line consumed by the marker before it.
IsConsumedLink(body, k) ==
    /\ k > 1
    /\ IsMarker(body, k - 1)
    /\ MatchLabel("lesson link:", Strip(body[k])) # None

\* The sentences of a piece of body text, each to be found in a chunk.
TextSentences(text) == SplitSentences(text)

\* Every sentence of the text is in the content of one of the chunks.
CoveredBy(text, course_chunks) ==
    \A n \in 1..Len(TextSentences(text)) :
        \E k \in 1..Len(course_chunks) :
            Contains(course_chunks[k].content, TextSentences(text)[n])

\* The body has no lesson marker and is not empty.
AnonymousBody(body) ==
    /\ \A k \in 1..Len(body) : ~IsMarker(body, k)
    /\ Strip(JoinLines(body)) # ""

\* C14: a document without lesson markers and with a non-empty body is
\* chunked as one anonymous unit: the chunks cover the whole body and none
\* has a lesson_number, however many of the header lines are present.  The
\* documents looked at begin with a Course Title line, so that no line of
\* the body is taken for the title.
AnonymousBodyChunked ==
    (doc.pc = "done" /\ AnonymousBody(d_file.body) /\ d_file.header # <<>>) =>
        /\ doc.course_chunks # <<>>
        /\ \A k \in 1..Len(doc.course_chunks) :
               doc.course_chunks[k].lesson_number = None
        /\ CoveredBy(Strip(JoinLines(d_file.body)), doc.course_chunks)

\* The same for the documents whose metadata block fills the three lines
\* that the scan skips: for these the body is chunked as a whole.
AnonymousBodyChunkedFullHeader ==
    (doc.pc = "done" /\ AnonymousBody(d_file.body) /\ Len(d_file.header) >= 3) =>
        /\ doc.course_chunks # <<>>
        /\ \A k \in 1..Len(doc.course_chunks) :
               doc.course_chunks[k].lesson_number = None
        /\ CoveredBy(Strip(JoinLines(d_file.body)), doc.course_chunks)

AnonymousBodyFullHeaderReached ==
    /\ doc.pc = "done"
    /\ AnonymousBody(d_file.body)
    /\ Len(d_file.header) >= 3
    /\ Len(doc.course_chunks) >= 2

\* The chunks a step of process_course_document appends.
NewChunks == SubSeq(doc'.course_chunks, Len(doc.course_chunks) + 1, Len(doc'.course_chunks))

\* The chunk texts of the lesson accumulated so far.
LessonTexts == ChunkText(Strip(JoinLines(doc.lesson_content)), chunk_size, chunk_overlap)

\* C15: of a lesson sealed by a later marker, the first chunk is stored as
\* "Lesson <n> content: " followed by the chunk text and the later chunks
\* are stored unchanged; the chunks of the last lesson of the document are
\* all stored as "Course <title> Lesson <n> content: " followed by the chunk
\* text.
PrefixRule ==
    [][ /\ (doc.pc = "scan" /\ doc.i < Len(doc.lines) /\ NewChunks # <<>>) =>
              /\ Len(NewChunks) = Len(LessonTexts)
              /\ \A k \in 1..Len(NewChunks) :
                     NewChunks[k].content =
                         IF k = 1
                         THEN "Lesson " \o ToString(doc.current_lesson[1])
                                  \o " content: " \o LessonTexts[k]
                         ELSE LessonTexts[k]
        /\ (doc.pc = "scan" /\ doc.i >= Len(doc.lines) /\ NewChunks # <<>>) =>
              /\ Len(NewChunks) = Len(LessonTexts)
              /\ \A k \in 1..Len(NewChunks) :
                     NewChunks[k].content =
                         "Course " \o doc.course.title \o " Lesson "
                             \o ToString(doc.current_lesson[1])
                             \o " content: " \o LessonTexts[k]
      ]_vars

\* A document with an interior lesson of two chunks and a last lesson of two
\* chunks has been processed.
PrefixRuleWitness ==
    /\ doc.pc = "done"
    /\ Len(doc.course_chunks) = 4
    /\ doc.course_chunks[1].content = "Lesson 0 content: Hello world."
    /\ doc.course_chunks[2].content = "This is lesson zero."
    /\ doc.course_chunks[3].content = "Course Intro Lesson 1 content: Hello world."
    /\ doc.course_chunks[4].content = "Course Intro Lesson 1 content: This is lesson zero."

\* Line k of the body lies before the first lesson marker.
BeforeFirstMarker(body, k) == \A m \in 1..k : ~IsMarker(body, m)

\* C16: every non-blank body line that is neither a lesson marker nor a
\* consumed Lesson Link line has its text in a chunk, and a line before the
\* first marker has its text in a chunk without lesson_number.  The
\* documents looked at have a metadata block that fills the three lines the
\* scan skips, so that the body begins where the scan begins.
NoBodyTextDropped ==
    (doc.pc = "done" /\ Len(d_file.header) >= 3) =>
        \A k \in 1..Len(d_file.body) :
            (/\ Strip(d_file.body[k]) # ""
             /\ ~IsMarker(d_file.body, k)
             /\ ~IsConsumedLink(d_file.body, k)) =>
                /\ CoveredBy(d_file.body[k], doc.course_chunks)
                /\ BeforeFirstMarker(d_file.body, k) =>
                       CoveredBy(d_file.body[k],
                                 SelectSeq(doc.course_chunks,
                                           LAMBDA c : c.lesson_number = None))

\* The same for the text of the lessons of a document whose metadata block
\* fills the three lines that the scan skips: no text after a marker is
\* dropped.
NoLessonTextDropped ==
    (doc.pc = "done" /\ Len(d_file.header) >= 3) =>
        \A k \in 1..Len(d_file.body) :
            (/\ Strip(d_file.body[k]) # ""
             /\ ~IsMarker(d_file.body, k)
             /\ ~IsConsumedLink(d_file.body, k)
             /\ ~BeforeFirstMarker(d_file.body, k)) =>
                CoveredBy(d_file.body[k], doc.course_chunks)

(***************************************************************************)
(* Properties of RAGSystem.add_course_document.                            *)
(***************************************************************************)
\* The entries of the content collection that belong to a course title.
ContentOf(content_, title) ==
    { content_[id] : id \in {i \in DOMAIN content_ : content_[i].metadata.course_title = title} }

\* C13: after add_course_document has added a document, the content
\* collection holds for its course title exactly the chunks of that
\* document, and no chunk of an earlier version of the course.
ReingestReplaces ==
    (last_added # None /\ last_added[1].outcome = "added") =>
        LET processed == ProcessCourseDocument(last_added[1].file, chunk_size, chunk_overlap)
        IN  ContentOf(content, processed.course.title)
                = ContentOf(AddCourseContent(EmptyCollection, processed.course_chunks),
                            processed.course.title)

\* A course has been added a second time, from a document with fewer chunks.
ReingestFewerChunksReached ==
    /\ last_added # None
    /\ last_added[1].outcome = "added"
    /\ last_added[1].file.name = "intro2.txt"
    /\ Cardinality(ContentOf(content, "Intro")) = 2

(***************************************************************************)
(* RAGSystem.add_course_folder, step by step on the record of its locals:  *)
(* one step per entry of the folder.                                       *)
(***************************************************************************)
\* str.endswith(suffix)
EndsWith(s, suffix) ==
    /\ Len(s) >= Len(suffix)
    /\ SubSeq(s, Len(s) - Len(suffix) + 1, Len(s)) = suffix

\* rag_system.py line 81: the entry is a file with a document extension.
Eligible(entry) ==
    /\ entry.is_file
    /\ \E suffix \in {".pdf", ".docx", ".txt"} : EndsWith(ToLower(entry.name), suffix)

\* vector_store.py lines 206-216: the ids of the catalog, or the empty list
\* when the index raises.
GetExistingCourseTitles(catalog_, raises) ==
    IF raises THEN {} ELSE DOMAIN catalog_

\* rag_system.py lines 63-76: the locals when the loop is entered, or at the
\* return of line 73 when the folder does not exist.
FolderBegin(clear_existing, exists, listing, existing_course_titles) ==
    [FolderNotCalled EXCEPT
        !.pc = IF exists THEN "loop" ELSE "done",
        !.clear_existing = clear_existing,
        !.listed = IF exists THEN listing ELSE <<>>,
        !.listing = IF exists THEN listing ELSE <<>>,
        !.existing_course_titles = IF exists THEN existing_course_titles ELSE {}]

\* What one iteration of the loop may come to for an eligible file: the
\* course is new and both writes succeed, the course exists already, or
\* process_course_document, add_course_metadata or add_course_content raises.
FileOutcomes(f, processed) ==
    {"process raises"}
    \cup (IF processed.course.title \in f.existing_course_titles
          THEN {"exists"}
          ELSE {"added", "metadata raises", "content raises"})

\* One iteration of the loop that gives up the folder when a document
\* fails.
FolderFileStepAbort(f, entry, outcome, processed) ==
    LET record == [name |-> entry.name, outcome |-> outcome,
                   wrote_catalog |-> outcome \in {"added", "content raises"},
                   wrote_content |-> outcome = "added",
                   chunks |-> Len(processed.course_chunks)]
    IN  IF ~Eligible(entry) THEN [f EXCEPT !.listing = Tail(@)]
        ELSE IF outcome = "added"
        THEN [f EXCEPT
                !.listing = Tail(@),
                !.total_courses = @ + 1,
                !.total_chunks = @ + Len(processed.course_chunks),
                !.existing_course_titles = @ \cup {processed.course.title},
                !.log = Append(@, record)]
        ELSE IF outcome = "exists"
        THEN [f EXCEPT !.listing = Tail(@), !.log = Append(@, record)]
        ELSE [f EXCEPT !.listing = <<>>, !.log = Append(@, record)]

\* rag_system.py lines 79-98: one iteration of the loop, on the entry at the
\* head of the listing.
FolderFileStep(f, entry, outcome, processed) ==
    LET record == [name |-> entry.name, outcome |-> outcome,
                   wrote_catalog |-> outcome \in {"added", "content raises"},
                   wrote_content |-> outcome = "added",
                   chunks |-> Len(processed.course_chunks)]
    IN  IF ~Eligible(entry) THEN [f EXCEPT !.listing = Tail(@)]
        ELSE IF outcome = "added"
        THEN [f EXCEPT
                !.listing = Tail(@),
                !.total_courses = @ + 1,
                !.total_chunks = @ + Len(processed.course_chunks),
                !.existing_course_titles = @ \cup {processed.course.title},
                !.log = Append(@, record)]
        ELSE [f EXCEPT !.listing = Tail(@), !.log = Append(@, record)]

(***************************************************************************)
(* add_course_folder as a state machine.  The calls follow one another     *)
(* (at startup, app.py lines 88-98) on an index that keeps its content.    *)
(***************************************************************************)
\* The entries of the folder: a course Intro of two chunks, a course in a
\* file with an upper-case extension, a file that is no document, and a
\* directory named like a document.
FolderEntries ==
    { [name |-> "intro.txt", is_file |-> TRUE,
       content |-> "Course Title: Intro\nCourse Instructor: Ada\n\nLesson 0: Start\nHello world. This is lesson zero."],
      [name |-> "OTHER.TXT", is_file |-> TRUE,
       content |-> "Other Course\nnotes\n\n\nHello world."],
      [name |-> "notes.md", is_file |-> TRUE, content |-> "Hello world."],
      [name |-> "old.txt", is_file |-> FALSE, content |-> ""] }

\* os.listdir: the entries of the folder, or some of them, in any order.
FolderListings ==
    { l \in UNION { [1..n -> FolderEntries] : n \in 0..MaxListing } :
          \A j, k \in 1..Len(l) : j # k => l[j] # l[k] }

FolderInit ==
    /\ FolderIdle
    /\ StoreIdle
    /\ chunk_size = 20
    /\ chunk_overlap = 0
    /\ ChunkIdle
    /\ DocIdle
    /\ SessionIdle
    /\ QueryIdle

\* rag_system.py lines 63-76: add_course_folder is called; the data is
\* cleared if asked for (vector_store.py lines 195-204, the index obeying).
FolderCall ==
    /\ folder.pc = "idle"
    /\ \E clear_existing \in BOOLEAN, exists \in BOOLEAN,
          listing \in FolderListings, titles_raise \in BOOLEAN :
           LET cleared == IF clear_existing THEN EmptyCollection ELSE catalog
           IN  /\ catalog' = cleared
               /\ content' = IF clear_existing THEN EmptyCollection ELSE content
               /\ folder' = FolderBegin(clear_existing, exists, listing,
                                        GetExistingCourseTitles(cleared, titles_raise))
    /\ UNCHANGED <<search, index_calls, last_added, configVars, chunkVars, docVars,
                   sessionVars, queryVars>>

\* rag_system.py lines 79-98: one iteration of the loop.
FolderFile ==
    /\ folder.pc = "loop"
    /\ folder.listing # <<>>
    /\ LET entry == Head(folder.listing)
           processed == ProcessCourseDocument(entry, chunk_size, chunk_overlap)
       IN  \E outcome \in (IF Eligible(entry)
                            THEN FileOutcomes(folder, processed)
                            ELSE {"not a document"}) :
               /\ folder' = FolderFileStep(folder, entry, outcome, processed)
               /\ catalog' = IF Eligible(entry) /\ outcome \in {"added", "content raises"}
                             THEN AddCourseMetadata(catalog, processed.course)
                             ELSE catalog
               /\ content' = IF Eligible(entry) /\ outcome = "added"
                             THEN AddCourseContent(content, processed.course_chunks)
                             ELSE content
    /\ UNCHANGED <<search, index_calls, last_added, configVars, chunkVars, docVars,
                   sessionVars, queryVars>>

\* rag_system.py line 100: the listing is exhausted and the totals are
\* returned.
FolderReturn ==
    /\ folder.pc = "loop"
    /\ folder.listing = <<>>
    /\ folder' = [folder EXCEPT !.pc = "done"]
    /\ UNCHANGED <<storeVars, configVars, chunkVars, docVars, sessionVars, queryVars>>

\* The caller has taken the totals.
FolderTaken ==
    /\ folder.pc = "done"
    /\ folder' = FolderNotCalled
    /\ UNCHANGED <<storeVars, configVars, chunkVars, docVars, sessionVars, queryVars>>

FolderNext == FolderCall \/ FolderFile \/ FolderReturn \/ FolderTaken

SpecFolder == FolderInit /\ [][FolderNext]_vars

(***************************************************************************)
(* Properties of RAGSystem.add_course_folder.                              *)
(***************************************************************************)
\* The names of the eligible files of a listing, in its order.
EligibleNames(listing) ==
    LET eligible == SelectSeq(listing, Eligible)
    IN  [k \in 1..Len(eligible) |-> eligible[k].name]

\* The files of the log whose catalog write and content write both
\* succeeded.
BothWritten == {k \in 1..Len(folder.log) :
                    folder.log[k].wrote_catalog /\ folder.log[k].wrote_content}

RECURSIVE SumChunks(_)
SumChunks(S) ==
    IF S = {} THEN 0
    ELSE LET k == CHOOSE x \in S : TRUE
         IN  folder.log[k].chunks + SumChunks(S \ {k})

\* C12: when add_course_folder returns, every eligible file of the folder
\* has been processed, whatever failed before it, and the totals count
\* exactly the documents whose catalog write and content write both
\* succeeded.
FolderSkipsFailures ==
    folder.pc = "done" =>
        /\ [k \in 1..Len(folder.log) |-> folder.log[k].name] = EligibleNames(folder.listed)
        /\ folder.total_courses = Cardinality(BothWritten)
        /\ folder.total_chunks = SumChunks(BothWritten)

\* A folder of two documents has been gone through: the first failed at its
\* content write, the second was added.
FolderSkipsFailuresWitness ==
    /\ folder.pc = "done"
    /\ Len(folder.log) = 2
    /\ folder.log[1].outcome = "content raises"
    /\ folder.log[2].outcome = "added"
    /\ folder.total_courses = 1
    /\ folder.total_chunks = folder.log[2].chunks
    /\ folder.total_chunks > 0

\* C18: when add_course_folder has returned, every course title of the
\* catalog has all the chunks of its document in the content collection.
FolderCatalogComplete ==
    folder.pc = "done" =>
        \A title \in DOMAIN catalog :
            \E entry \in {e \in FolderEntries : Eligible(e)} :
                LET processed == ProcessCourseDocument(entry, chunk_size, chunk_overlap)
                IN  /\ processed.course.title = title
                    /\ ContentOf(AddCourseContent(EmptyCollection, processed.course_chunks), title)
                           \subseteq ContentOf(content, title)

\* A later run has found in the catalog a course without chunks and has
\* passed its document over as already existing.
FolderChunklessSkippedReached ==
    /\ folder.pc = "done"
    /\ ~folder.clear_existing
    /\ \E k \in 1..Len(folder.log) :
           /\ folder.log[k].name = "intro.txt"
           /\ folder.log[k].outcome = "exists"
    /\ "Intro" \in DOMAIN catalog
    /\ ContentOf(content, "Intro") = {}

(***************************************************************************)
(* SessionManager.                                                         *)
(***************************************************************************)
\* session_manager.py line 21: f"session_{self.session_counter}"
SessionId(n) == "session_" \o ToString(n)

\* Python's seq[-n:] for n >= 0: the last n elements, all of them when there
\* are fewer, and, -0 being 0, the whole list when n is 0.
LastSlice(seq, n) ==
    IF n = 0 THEN seq
    ELSE SubSeq(seq, Max(1, Len(seq) - n + 1), Len(seq))

\* sessions_ with the list of session_id replaced.
SetSession(sessions_, session_id, messages) ==
    [id \in DOMAIN sessions_ \cup {session_id} |->
        IF id = session_id THEN messages ELSE sessions_[id]]

\* session_manager.py lines 18-23: create_session; the new counter and the
\* id come with the sessions.
CreateSession(sessions_, counter) ==
    [session_counter |-> counter + 1,
     session_id |-> SessionId(counter + 1),
     sessions |-> SetSession(sessions_, SessionId(counter + 1), <<>>)]

\* session_manager.py lines 25-35: add_message.
AddMessage(sessions_, limit, session_id, role, content_) ==
    LET known == IF session_id \in DOMAIN sessions_ THEN sessions_ 
                 ELSE SetSession(sessions_, session_id, <<>>)
        appended == Append(known[session_id], [role |-> role, content |-> content_])
    IN  SetSession(known, session_id,
                   IF Len(appended) > limit * 2
                   THEN LastSlice(appended, limit * 2)
                   ELSE appended)

\* session_manager.py lines 37-40: add_exchange.
AddExchange(sessions_, limit, session_id, user_message, assistant_message) ==
    AddMessage(AddMessage(sessions_, limit, session_id, "user", user_message),
               limit, session_id, "assistant", assistant_message)

\* session_manager.py lines 58-61: clear_session.
ClearSession(sessions_, session_id) ==
    IF session_id \in DOMAIN sessions_
    THEN SetSession(sessions_, session_id, <<>>)
    ELSE sessions_

\* History: the messages added to a session since it was created or
\* cleared, with one more.
Added(added, session_id, messages) ==
    SetSession(added, session_id,
               (IF session_id \in DOMAIN added THEN added[session_id] ELSE <<>>) \o messages)

\* The number of messages the history holds.
RECURSIVE TotalAdded(_)
TotalAdded(added) ==
    IF DOMAIN added = {} THEN 0
    ELSE LET id == CHOOSE x \in DOMAIN added : TRUE
         IN  Len(added[id]) + TotalAdded([x \in DOMAIN added \ {id} |-> added[x]])

(***************************************************************************)
(* SessionManager as a state machine: its four operations in any order,    *)
(* add_message and add_exchange with ids the caller supplies (app.py lines *)
(* 61-66 pass the request's session_id on).                                *)
(***************************************************************************)
\* The ids a caller may supply: those create_session may return.
SessionIds == { SessionId(n) : n \in 1..MaxSessions }

\* The texts of the messages.
UserMessages == {"q", "m"}
AssistantMessages == {"a"}

SessionInit ==
    /\ max_history \in 0..MaxHistory
    /\ sessions = <<>>
    /\ session_counter = 0
    /\ s_added = <<>>
    /\ ChunkIdle
    /\ DocIdle
    /\ StoreIdle
    /\ FolderIdle
    /\ QueryIdle
    /\ chunk_size = 20
    /\ chunk_overlap = 0

SessionCreate ==
    /\ session_counter < MaxSessions
    /\ LET created == CreateSession(sessions, session_counter)
       IN  /\ sessions' = created.sessions
           /\ session_counter' = created.session_counter
           /\ s_added' = SetSession(s_added, created.session_id, <<>>)
    /\ UNCHANGED <<max_history, configVars, chunkVars, docVars, storeVars, folderVars,
                   queryVars>>

SessionAddMessage ==
    /\ TotalAdded(s_added) + 1 <= MaxMessages
    /\ \E session_id \in SessionIds, content_ \in UserMessages :
           /\ sessions' = AddMessage(sessions, max_history, session_id, "user", content_)
           /\ s_added' = Added(s_added, session_id,
                               <<[role |-> "user", content |-> content_]>>)
    /\ UNCHANGED <<max_history, session_counter, configVars, chunkVars, docVars,
                   storeVars, folderVars, queryVars>>

SessionAddExchange ==
    /\ TotalAdded(s_added) + 2 <= MaxMessages
    /\ \E session_id \in SessionIds, user_message \in UserMessages,
          assistant_message \in AssistantMessages :
           /\ sessions' = AddExchange(sessions, max_history, session_id,
                                      user_message, assistant_message)
           /\ s_added' = Added(s_added, session_id,
                               <<[role |-> "user", content |-> user_message],
                                 [role |-> "assistant", content |-> assistant_message]>>)
    /\ UNCHANGED <<max_history, session_counter, configVars, chunkVars, docVars,
                   storeVars, folderVars, queryVars>>

SessionClear ==
    /\ \E session_id \in SessionIds :
           /\ sessions' = ClearSession(sessions, session_id)
           /\ s_added' = IF session_id \in DOMAIN sessions
                         THEN SetSession(s_added, session_id, <<>>)
                         ELSE s_added
    /\ UNCHANGED <<max_history, session_counter, configVars, chunkVars, docVars,
                   storeVars, folderVars, queryVars>>

SessionNext == SessionCreate \/ SessionAddMessage \/ SessionAddExchange \/ SessionClear

SpecSession == SessionInit /\ [][SessionNext]_vars

(***************************************************************************)
(* Properties of SessionManager.                                           *)
(***************************************************************************)
\* The last n elements of a sequence, all of it when it has fewer.
MostRecent(seq, n) == SubSeq(seq, Max(1, Len(seq) - n + 1), Len(seq))

\* C17: every session holds at most 2 * max_history messages, and they are
\* the most recently added ones, in the order they were added.
HistoryBounded ==
    \A id \in DOMAIN sessions :
        /\ Len(sessions[id]) <= 2 * max_history
        /\ sessions[id] = MostRecent(s_added[id], 2 * max_history)

\* The same for a manager with max_history >= 1: there the buffer is
\* bounded and holds the most recent messages.
HistoryBoundedPositive ==
    max_history >= 1 =>
        \A id \in DOMAIN sessions :
            /\ Len(sessions[id]) <= 2 * max_history
            /\ sessions[id] = MostRecent(s_added[id], 2 * max_history)

\* A session of a manager with max_history >= 1 has dropped its oldest
\* message.
HistoryTruncatedReached ==
    /\ max_history >= 1
    /\ \E id \in DOMAIN sessions :
           /\ Len(s_added[id]) > 2 * max_history
           /\ Len(sessions[id]) = 2 * max_history

\* C19: create_session leaves the history of every session that exists as
\* it was: the id it returns is the key of none of them.
CreateSessionFresh ==
    [][ session_counter' # session_counter =>
            \A id \in DOMAIN sessions : sessions'[id] = sessions[id] ]_vars

(***************************************************************************)
(* The search tool and RAGSystem.query.                                    *)
(***************************************************************************)
\* vector_store.py lines 61-100: the results VectorStore.search may return
\* for its arguments on the index as it is, one per outcome of the queries
\* it makes.
SearchOutcomes(catalog_, content_, query, course_name, lesson_number, max_results) ==
    LET begun == SearchBegin(query, course_name, lesson_number, None)
        resolved ==
            IF begun.pc = "resolve"
            THEN { SearchResolved(begun, ResolveCourseName(outcome)) :
                       outcome \in QueryOutcomes(catalog_, 1, None, {0}) }
            ELSE {begun}
    IN  UNION { IF r.pc = "done" THEN {r.result[1]}
                ELSE { SearchQueried(r, outcome).result[1] :
                           outcome \in QueryOutcomes(content_, SearchLimit(r, max_results),
                                                     r.filter_dict, {0}) } :
                r \in resolved }

\* vector_store.py lines 262-279: get_lesson_link, None when the index
\* raises, when the course or the lesson is not in the catalog, or when the
\* lesson has no link.
GetLessonLink(catalog_, course_title, lesson_number, raises) ==
    IF raises \/ course_title \notin DOMAIN catalog_ THEN None
    ELSE LET lessons == catalog_[course_title].metadata.lessons_json
             matching == {k \in 1..Len(lessons) : lessons[k].lesson_number = lesson_number}
         IN  IF matching = {} THEN None ELSE lessons[MinOf(matching)].lesson_link

\* search_tools.py lines 94-117: the source of one result.
SourceOf(catalog_, meta, link_raises) ==
    LET source_text ==
            IF meta.lesson_number # None
            THEN meta.course_title \o " - Lesson " \o ToString(meta.lesson_number[1])
            ELSE meta.course_title
        lesson_link ==
            IF meta.lesson_number # None
            THEN GetLessonLink(catalog_, meta.course_title, meta.lesson_number[1], link_raises)
            ELSE None
    IN  IF Truthy(lesson_link)
        THEN "<a href=\"" \o lesson_link[1] \o "\" target=\"_blank\">" \o source_text \o "</a>"
        ELSE source_text

\* search_tools.py lines 88-126: the sources _format_results stores in
\* last_sources.
FormatSources(catalog_, results, link_raises) ==
    [k \in 1..Len(results.documents) |-> SourceOf(catalog_, results.metadata[k], link_raises)]

\* search_tools.py lines 66-86: last_sources after CourseSearchTool.execute
\* has got results from the store: an error or an empty result returns
\* before _format_results.
ExecuteSources(catalog_, results, link_raises, sources) ==
    IF results.error # None THEN sources
    ELSE IF results.documents = <<>> THEN sources
    ELSE FormatSources(catalog_, results, link_raises)

\* search_tools.py lines 154-160: get_last_sources, with the one tool
\* registered.
GetLastSources(sources) == IF sources # <<>> THEN sources ELSE <<>>

\* search_tools.py lines 162-166: reset_sources.
ResetSources == <<>>

(***************************************************************************)
(* RAGSystem.query as a state machine: the calls follow one another; one   *)
(* step per request to the language model and per tool call.               *)
(***************************************************************************)
\* The document the index holds: two lessons, the first with a link.
QueryFile ==
    [name |-> "intro.txt",
     content |-> "Course Title: Intro\n\n\nLesson 0: Start\nLesson Link: http://l\nHello world.\nLesson 1: Next\nBye now."]

\* The arguments of the model's tool calls.
ToolNames == {"search_course_content", "other_tool"}
ToolCourseNames == {None, Some("Intr")}
ToolLessonNumbers == {None, Some(0), Some(7)}

QueryInit ==
    /\ LET processed == ProcessCourseDocument(QueryFile, 20, 0)
       IN  /\ catalog = AddCourseMetadata(EmptyCollection, processed.course)
           /\ content = AddCourseContent(EmptyCollection, processed.course_chunks)
    /\ search = SearchIdle
    /\ index_calls = <<>>
    /\ last_added = None
    /\ chunk_size = 20
    /\ chunk_overlap = 0
    /\ QueryIdle
    /\ SessionIdle
    /\ FolderIdle
    /\ ChunkIdle
    /\ DocIdle

\* rag_system.py lines 114-119: query is called, with or without a session.
QueryCall ==
    /\ rq.pc = "idle"
    /\ \E session_id \in {None} \cup {Some(SessionId(1))} :
           /\ session_id # None => TotalAdded(s_added) + 2 <= MaxMessages
           /\ rq' = [QueryNotCalled EXCEPT !.pc = "generate", !.session_id = session_id]
    /\ UNCHANGED <<last_sources, sessionVars, storeVars, configVars, chunkVars, docVars,
                   folderVars>>

\* ai_generator.py lines 83-90: the first request to the model raises, is
\* answered directly, or is answered with tool calls.
QueryGenerate ==
    /\ rq.pc = "generate"
    /\ \/ rq' = [rq EXCEPT !.pc = "raised"]
       \/ rq' = [rq EXCEPT !.pc = "collect"]
       \/ \E n \in 1..MaxToolCalls : rq' = [rq EXCEPT !.pc = "tools", !.tool_calls = n]
    /\ UNCHANGED <<last_sources, sessionVars, storeVars, configVars, chunkVars, docVars,
                   folderVars>>

\* ai_generator.py lines 115-130 and search_tools.py lines 147-152: one tool
\* call is executed; a tool that is not registered gives a message, the
\* search tool searches the store.
QueryToolCall ==
    /\ rq.pc = "tools"
    /\ rq.tool_calls > 0
    /\ \E tool_name \in ToolNames, course_name \in ToolCourseNames,
          lesson_number \in ToolLessonNumbers, link_raises \in BOOLEAN :
           \E results \in SearchOutcomes(catalog, content, "q", course_name,
                                         lesson_number, MaxResults) :
               IF tool_name = "search_course_content"
               THEN /\ last_sources' = ExecuteSources(catalog, results, link_raises,
                                                      last_sources)
                    /\ rq' = [rq EXCEPT
                                 !.tool_calls = @ - 1,
                                 !.searched = @ \/ (results.error = None
                                                    /\ results.documents # <<>>)]
               ELSE /\ last_sources' = last_sources
                    /\ rq' = [rq EXCEPT !.tool_calls = @ - 1]
    /\ UNCHANGED <<sessionVars, storeVars, configVars, chunkVars, docVars, folderVars>>

\* ai_generator.py lines 139-140: the request for the final answer returns
\* or raises.
QueryFinal ==
    /\ rq.pc = "tools"
    /\ rq.tool_calls = 0
    /\ \/ rq' = [rq EXCEPT !.pc = "collect"]
       \/ rq' = [rq EXCEPT !.pc = "raised"]
    /\ UNCHANGED <<last_sources, sessionVars, storeVars, configVars, chunkVars, docVars,
                   folderVars>>

\* rag_system.py lines 130-140: the sources are taken and reset, the
\* exchange is added to the session, and query returns.
QueryCollect ==
    /\ rq.pc = "collect"
    /\ rq' = [rq EXCEPT !.pc = "done", !.sources = GetLastSources(last_sources)]
    /\ last_sources' = ResetSources
    /\ IF rq.session_id # None
       THEN /\ sessions' = AddExchange(sessions, max_history, rq.session_id[1], "q", "a")
            /\ s_added' = Added(s_added, rq.session_id[1],
                                <<[role |-> "user", content |-> "q"],
                                  [role |-> "assistant", content |-> "a"]>>)
       ELSE UNCHANGED <<sessions, s_added>>
    /\ UNCHANGED <<max_history, session_counter, storeVars, configVars, chunkVars,
                   docVars, folderVars>>

\* The caller has taken the answer, or the exception (app.py lines 66-74).
QueryTaken ==
    /\ rq.pc \in {"done", "raised"}
    /\ rq' = QueryNotCalled
    /\ UNCHANGED <<last_sources, sessionVars, storeVars, configVars, chunkVars, docVars,
                   folderVars>>

QueryNext ==
    QueryCall \/ QueryGenerate \/ QueryToolCall \/ QueryFinal \/ QueryCollect \/ QueryTaken

SpecQuery == QueryInit /\ [][QueryNext]_vars

(***************************************************************************)
(* Properties of RAGSystem.query.                                          *)
(***************************************************************************)
\* C20: a query during which no search returned results returns an empty
\* source list, whatever happened in the queries before it.
QuerySourcesFresh ==
    (rq.pc = "done" /\ ~rq.searched) => rq.sources = <<>>

\* When query returns, it has reset the sources of the search tool.
QueryResetsSources ==
    rq.pc = "done" => last_sources = <<>>

\* A query has returned the sources of a search it made: a lesson with a
\* link and a lesson without.
QuerySourcesReturnedReached ==
    /\ rq.pc = "done"
    /\ rq.searched
    /\ rq.sources = << "<a href=\"http://l\" target=\"_blank\">Intro - Lesson 0</a>",
                       "Intro - Lesson 1" >>

(***************************************************************************)
(* Properties of the ids of the content collection.                        *)
(***************************************************************************)
\* C21: the chunks of courses with different titles get different ids, so
\* that a write never replaces an entry of the content collection by a chunk
\* of a course with another title.
ContentIdsKeepCourse ==
    [][ \A id \in DOMAIN content :
            content'[id].metadata.course_title = content[id].metadata.course_title ]_vars

\* The chunks of the two courses whose titles differ in a space and an
\* underscore have the same id.
ContentIdsCollideReached ==
    /\ last_added # None
    /\ last_added[1].outcome = "added"
    /\ last_added[1].file.name = "other2.txt"
    /\ "Other Course" \in DOMAIN catalog
    /\ "Other_Course" \in DOMAIN catalog
    /\ ContentOf(content, "Other Course") = {}
    /\ ContentOf(content, "Other_Course") # {}

(***************************************************************************)
(* Properties of chunk_text: the end of the loop.                          *)
(***************************************************************************)
\* The index after the last sentence of chunk k.
ChunkEnd(k) == Emitted[k].start + Emitted[k].n

\* C22: with chunk_overlap > 0, every emitted chunk after the first holds a
\* sentence that lies after the last sentence of the chunk before it: no
\* chunk is a suffix of its predecessor.
ChunkAddsSentence ==
    chunk_overlap > 0 =>
        \A k \in 2..Len(Emitted) : ChunkEnd(k) > ChunkEnd(k - 1)

\* The same without overlap: every chunk begins where the one before it
\* ends.
ChunkAddsSentenceNoOverlap ==
    chunk_overlap = 0 =>
        \A k \in 2..Len(Emitted) : Emitted[k].start = ChunkEnd(k - 1)

====
